---------------------------- MODULE Spec2Model ----------------------------
(***************************************************************************)
(* Model of the Maven repository-URL resolver:                             *)
(*   scripts/get-repo-url.py    fetch_url, clean_scm_url, get_repo_url     *)
(*                              main                                       *)
(*   scripts/bulk-repo-lookup.py  resolve_artifact, resolve_parallel, main *)
(*   scripts/generate-mapping-workflow.py  get_unique_repositories         *)
(* Spec runs the resolver process once against a package index chosen in   *)
(* Init; BulkSpec runs one call of resolve_parallel, the resolver process  *)
(* being the environment; BulkFairSpec adds that threads keep running;     *)
(* BulkTtySpec lets standard error be a terminal. FunSpec calls one pure   *)
(* function on an argument chosen in Init.                                 *)
(* Python strings are TLA+ strings (Len, \o and SubSeq act on them).       *)
(* An optional value (None or a text) is a tuple: <<>> is None, <<s>> is   *)
(* the text s.                                                             *)
(***************************************************************************)
EXTENDS Integers, Sequences, FiniteSets, TLC

VARIABLES
    world,      \* what the package index serves: [meta, start, par]
    argv,       \* get-repo-url.py: the command-line arguments after the script name
    proc,       \* get-repo-url.py: how the process ended: [exit, stdout, stderr]
    pc,         \* "main", then get_repo_url: "metadata", "loop", "fetch", "parse",
                \* "done", then "exited"; "idle" when the resolver is not run
    cur,        \* [g, a, v]: current_group, current_artifact, current_version
    depth,      \* depth
    content,    \* the response of the last fetch_url(pom_url)
    fetched,    \* the manifests requested so far, in order (keys [g, a, v])
    metaFetches,\* number of requests for maven-metadata.xml
    outcome,    \* how get_repo_url ended: [kind, val]
    artifacts,  \* resolve_parallel: the input list
    max_workers,\* resolve_parallel: the width of the thread pool
    unit,       \* per input index: the submitted call of resolve_artifact
    results,    \* resolve_parallel: the list the main thread appends to
    bpc,        \* resolve_parallel: "idle", "collect", "returned", "aborted";
                \* "exited" when the process of bulk-repo-lookup.py has ended
    output,     \* the list resolve_parallel returned
    tty,        \* sys.stderr.isatty()
    progress,   \* the progress line on the terminal: <<>> or <<done, resolved>>
    exit_code,  \* the exit code of bulk-repo-lookup.py, -1 while it runs
    call,       \* a function called on its own: [fn, arg]
    ret         \* the values that function has returned so far, in order

tvars == <<world, argv, proc, pc, cur, depth, content, fetched, metaFetches, outcome>>

bvars == <<artifacts, max_workers, unit, results, bpc, output, tty, progress,
           exit_code>>

fvars == <<call, ret>>

vars == <<world, argv, proc, pc, cur, depth, content, fetched, metaFetches, outcome,
          artifacts, max_workers, unit, results, bpc, output, tty, progress,
          exit_code, call, ret>>

----------------------------------------------------------------------------
(* Optional values and Python truthiness                                    *)

None == <<>>

Some(s) == <<s>>

\* `if x:` for x an optional text: not None and not ''
Truthy(o) == o # None /\ o[1] # ""

----------------------------------------------------------------------------
(* Python string primitives                                                 *)

CharAt(s, i) == SubSeq(s, i, i)

StartsWithAt(s, i, p) ==
    /\ i + Len(p) - 1 <= Len(s)
    /\ SubSeq(s, i, i + Len(p) - 1) = p

\* `p in s`
Contains(s, p) == \E i \in 1..Len(s) : StartsWithAt(s, i, p)

RECURSIVE ReplaceFrom(_, _, _, _)
ReplaceFrom(s, i, old, new) ==
    IF i > Len(s) THEN ""
    ELSE IF StartsWithAt(s, i, old)
         THEN new \o ReplaceFrom(s, i + Len(old), old, new)
         ELSE CharAt(s, i) \o ReplaceFrom(s, i + 1, old, new)

\* s.replace(old, new): every non-overlapping occurrence, left to right
Replace(s, old, new) == ReplaceFrom(s, 1, old, new)

\* first position >= i holding a newline, or Len(s) + 1
RECURSIVE LineEnd(_, _)
LineEnd(s, i) ==
    IF i > Len(s) \/ CharAt(s, i) = "\n" THEN i ELSE LineEnd(s, i + 1)

\* re.sub(re.escape(".git") + r'.*', '', s): '.' matches no newline, so each
\* match runs from ".git" to the end of its line
RECURSIVE SubDotGitFrom(_, _)
SubDotGitFrom(s, i) ==
    IF i > Len(s) THEN ""
    ELSE IF StartsWithAt(s, i, ".git")
         THEN SubDotGitFrom(s, LineEnd(s, i))
         ELSE CharAt(s, i) \o SubDotGitFrom(s, i + 1)

SubDotGit(s) == SubDotGitFrom(s, 1)

\* s.rstrip('/')
RECURSIVE RStripSlash(_)
RStripSlash(s) ==
    IF Len(s) > 0 /\ CharAt(s, Len(s)) = "/"
    THEN RStripSlash(SubSeq(s, 1, Len(s) - 1))
    ELSE s

IsSpace(c) == c \in {" ", "\n", "\t", "\r"}

RECURSIVE LStrip(_)
LStrip(s) ==
    IF Len(s) > 0 /\ IsSpace(CharAt(s, 1))
    THEN LStrip(SubSeq(s, 2, Len(s)))
    ELSE s

RECURSIVE RStrip(_)
RStrip(s) ==
    IF Len(s) > 0 /\ IsSpace(CharAt(s, Len(s)))
    THEN RStrip(SubSeq(s, 1, Len(s) - 1))
    ELSE s

\* s.strip()
Strip(s) == RStrip(LStrip(s))

----------------------------------------------------------------------------
(* clean_scm_url                                                            *)

CleanText(url) ==
    LET u1 == Replace(url, "scm:", "")
        u2 == Replace(u1, "git://", "https://")
        u3 == Replace(u2, "ssh://git@", "https://")
        u4 == Replace(u3, "git@github.com:", "https://github.com/")
        u5 == Replace(u4, "git@gitlab.com:", "https://gitlab.com/")
        u6 == Replace(u5, "git@bitbucket.org:", "https://bitbucket.org/")
        u7 == Replace(u6, "git:", "")
        u8 == SubDotGit(u7)
    IN  RStripSlash(u8)

\* url is an optional text; so is the result
clean_scm_url(url) == IF ~Truthy(url) THEN None ELSE Some(CleanText(url[1]))


----------------------------------------------------------------------------
(* fetch_url                                                                *)

\* A response of the package index to one GET:
\*   kind "ok"          a body that parses; doc is the parsed document
\*        "parseerror"  a non-empty body that is not well-formed XML
\*        "empty"       an empty body
\*        "notfound"    HTTP 404
\*        "httperror"   any other HTTP error status
\*        "neterror"    a timeout or a connection error
NoDoc ==
    [scm |-> None, scmFirst |-> FALSE, url |-> None, parent |-> None,
     artifactId |-> None]

Resp(k) == [kind |-> k, doc |-> NoDoc]

OkResp(d) == [kind |-> "ok", doc |-> d]

\* [exc, body]: exc is the exception that leaves fetch_url ("" when it returns),
\* body the returned text (None, or the response whose body was read)
fetch_url(resp) ==
    CASE resp.kind = "notfound"  -> [exc |-> "", body |-> None]
      [] resp.kind = "httperror" -> [exc |-> "HTTPError", body |-> None]
      [] resp.kind = "neterror"  -> [exc |-> "", body |-> None]
      [] OTHER                   -> [exc |-> "", body |-> Some(resp)]

\* `if not metadata` / `if not pom_content`
NoContent(body) == body = None \/ body[1].kind = "empty"

----------------------------------------------------------------------------
(* get_repo_url, step 1: the version to traverse                           *)

\* A version index: latest and release are <<>> (no such element) or <<t>>,
\* t the element's text (None for an empty element); versions is <<>> or
\* <<list>>, the texts of the version children of the versions element.
SelectVersion(m) ==
    LET version_elem == IF m.latest # <<>> THEN m.latest ELSE m.release
    IN  IF version_elem = <<>>
        THEN IF m.versions # <<>> /\ Len(m.versions[1]) > 0
             THEN [found |-> TRUE, version |-> m.versions[1][Len(m.versions[1])]]
             ELSE [found |-> FALSE, version |-> None]
        ELSE [found |-> TRUE, version |-> version_elem[1]]

----------------------------------------------------------------------------
(* get_repo_url, step 2: one manifest                                      *)

max_depth == 10

\* the order in which the fields of the SCM block are tried (line 131)
SCM_FIELDS_UrlFirst == <<"url", "developerConnection", "connection">>

SCM_FIELDS == <<"developerConnection", "url", "connection">>

REPO_HOSTS == {"github.com", "gitlab.com", "bitbucket.org", "sourceforge.net"}

\* the SCM block: the cleaned text of the first field, in SCM_FIELDS order,
\* that has a text and cleans to a non-empty one; None when no field does
RECURSIVE ScmProbe(_, _)
ScmProbe(scm, k) ==
    IF k > Len(SCM_FIELDS) THEN None
    ELSE LET text == scm[SCM_FIELDS[k]]
             cleaned_url == clean_scm_url(text)
         IN  IF Truthy(text) /\ Truthy(cleaned_url)
             THEN cleaned_url
             ELSE ScmProbe(scm, k + 1)

\* root.find('.//url'): the first url element below the root in document
\* order, the project's own url element or the url child of the SCM block
\* (scmFirst: the SCM block stands before the project's url element)
FindUrl(doc) ==
    IF doc.scm # None /\ doc.scm[1].url # None /\ (doc.scmFirst \/ doc.url = None)
    THEN doc.scm[1].url
    ELSE doc.url

\* the project URL fallback: the URL returned, or None
ProjectUrlProbe(doc) ==
    LET text == FindUrl(doc)
    IN  IF Truthy(text)
        THEN LET url == Strip(text[1])
             IN  IF \E host \in REPO_HOSTS : Contains(url, host)
                 THEN Some(url)
                 ELSE None
        ELSE None

\* the name `parent` at line 151: get_repo_url never assigns it and the module
\* has no global of that name, so evaluating it raises NameError
parent(doc) == [bound |-> FALSE, elem |-> None]

AllPopulated(p) == Truthy(p.groupId) /\ Truthy(p.artifactId) /\ Truthy(p.version)

IsOssParent(p) ==
    p.groupId = Some("org.sonatype.oss") /\ p.artifactId = Some("oss-parent")

IsApacheRoot(p) ==
    p.groupId = Some("org.apache") /\ p.artifactId = Some("apache")

\* what the loop does with a parent element: return, advance to it, or break
FollowParent(doc, p) ==
    [act |-> IF AllPopulated(p) THEN "advance" ELSE "break",
     val |-> None,
     to  |-> IF AllPopulated(p)
             THEN [g |-> p.groupId[1], a |-> p.artifactId[1], v |-> p.version]
             ELSE [g |-> "", a |-> "", v |-> None]]

ParentStep(doc, elem) ==
    IF elem = None
    THEN [act |-> "break", val |-> None, to |-> [g |-> "", a |-> "", v |-> None]]
    ELSE LET p == elem[1]
         IN  IF IsOssParent(p)
             THEN [act |-> "return", val |-> None,
                   to |-> [g |-> "", a |-> "", v |-> None]]
             ELSE IF IsApacheRoot(p) /\ Truthy(doc.artifactId)
             THEN [act |-> "return",
                   val |-> Some("https://github.com/apache/" \o doc.artifactId[1]),
                   to |-> [g |-> "", a |-> "", v |-> None]]
             ELSE FollowParent(doc, p)

NoTarget == [g |-> "", a |-> "", v |-> None]

\* the handler of ET.ParseError inside the loop
AfterParseErrorContinue == "continue"

AfterParseError == "break"

\* the handler of an empty fetch inside the loop
AfterFetchFailure == "break"

\* the body of the try block for one fetched manifest
ManifestStep(resp) ==
    IF resp.kind = "parseerror"
    THEN [act |-> AfterParseError, val |-> None, to |-> NoTarget]
    ELSE LET doc == resp.doc
             fromScm == IF doc.scm # None THEN ScmProbe(doc.scm[1], 1) ELSE None
             fromUrl == ProjectUrlProbe(doc)
             par == parent(doc)
         IN  IF fromScm # None
             THEN [act |-> "return", val |-> fromScm, to |-> NoTarget]
             ELSE IF fromUrl # None
             THEN [act |-> "return", val |-> fromUrl, to |-> NoTarget]
             ELSE IF ~par.bound
             THEN [act |-> "raise", val |-> Some("NameError"), to |-> NoTarget]
             ELSE ParentStep(doc, par.elem)


----------------------------------------------------------------------------
(* The package index get_repo_url runs against                              *)

group_id == "org.x"

artifact_id == "foo"

PublishedVersions == {Some("1"), Some("2"), Some("3")}

Key(g, a, v) == [g |-> g, a |-> a, v |-> v]

ParentRef(g, a, v) == Some([groupId |-> g, artifactId |-> a, version |-> v])

ParKey == Key("org.x", "par", Some("5"))

DevConnTexts == {None, Some("scm:git:"), Some("scm:git:git@github.com:o/dc.git")}

ScmUrlTexts == {None, Some(""), Some("https://github.com/o/url/")}

ConnTexts == {None, Some(" "), Some("scm:git:git://github.com/o/conn.git")}

ScmBlocks ==
    {None} \cup
    { Some([developerConnection |-> d, url |-> u, connection |-> c]) :
        d \in DevConnTexts, u \in ScmUrlTexts, c \in ConnTexts }

ProjectUrls ==
    {None, Some("https://github.com/o/p/"), Some(" https://example.org/p "),
     Some("https://example.org/github.com")}

ParentRefs ==
    {None,
     ParentRef(Some("org.x"), Some("par"), Some("5")),
     ParentRef(Some("org.x"), Some("par"), None),
     ParentRef(Some("org.sonatype.oss"), Some("oss-parent"), Some("7")),
     ParentRef(Some("org.apache"), Some("apache"), Some("21")),
     ParentRef(Some(group_id), Some(artifact_id), Some("1"))}

StartDocs ==
    { d \in [scm : ScmBlocks, scmFirst : BOOLEAN, url : ProjectUrls,
             parent : ParentRefs, artifactId : {Some("foo")}] :
        d.scmFirst => (d.scm # None /\ d.scm[1].url # None /\ d.url # None) }

FailureKinds == {"notfound", "httperror", "neterror", "empty", "parseerror"}

StartResponses == {OkResp(d) : d \in StartDocs} \cup {Resp(k) : k \in FailureKinds}

ScmOnly(u) ==
    [scm |-> Some([developerConnection |-> None, url |-> Some(u), connection |-> None]),
     scmFirst |-> FALSE, url |-> None, parent |-> None,
     artifactId |-> Some("par")]

ParResponses ==
    {OkResp(ScmOnly("https://gitlab.com/o/par")),
     OkResp([scm |-> None, scmFirst |-> FALSE, url |-> None, parent |-> None,
             artifactId |-> Some("par")]),
     OkResp([scm |-> None, scmFirst |-> FALSE, url |-> None,
             parent |-> ParentRef(Some(group_id), Some(artifact_id), Some("1")),
             artifactId |-> Some("par")])}

OssParentPom == OkResp(ScmOnly("https://github.com/sonatype/oss-parents"))

ApacheRootPom == OkResp(ScmOnly("https://github.com/apache/maven-apache-parent"))

Index(k, l, r, vs) == [kind |-> k, latest |-> l, release |-> r, versions |-> vs]

MetaResponses ==
    {Index("ok", <<Some("1")>>, <<Some("2")>>, <<<<Some("2"), Some("3")>>>>),
     Index("ok", <<>>, <<Some("2")>>, <<<<Some("1"), Some("3")>>>>),
     Index("ok", <<>>, <<>>, <<<<Some("1"), Some("3")>>>>),
     Index("ok", <<>>, <<>>, <<<<>>>>),
     Index("ok", <<None>>, <<Some("2")>>, <<>>),
     Index("ok", <<None>>, <<>>, <<>>),
     Index("parseerror", <<>>, <<>>, <<>>),
     Index("notfound", <<>>, <<>>, <<>>),
     Index("httperror", <<>>, <<>>, <<>>)}

\* the response to GET of the version index of g:a
ServeMeta(w, g, a) ==
    IF g = group_id /\ a = artifact_id THEN w.meta ELSE Index("notfound", <<>>, <<>>, <<>>)

\* the response to GET of the manifest of key k
Serve(w, k) ==
    IF k.g = group_id /\ k.a = artifact_id /\ k.v \in PublishedVersions THEN w.start
    ELSE IF k = ParKey THEN w.par
    ELSE IF k.g = "org.sonatype.oss" /\ k.a = "oss-parent" THEN OssParentPom
    ELSE IF k.g = "org.apache" /\ k.a = "apache" THEN ApacheRootPom
    ELSE Resp("notfound")

----------------------------------------------------------------------------
(* get_repo_url as a state machine                                          *)

Running == [kind |-> "running", val |-> None]

Return(v) == [kind |-> "return", val |-> v]

Raise(e) == [kind |-> "raise", val |-> Some(e)]

InitDepth == 0

\* no function is called on its own
NoCall ==
    /\ call = [fn |-> "none", arg |-> None]
    /\ ret = <<>>

\* no bulk run is in progress
BulkIdle ==
    /\ artifacts = <<>>
    /\ max_workers = 1
    /\ unit = <<>>
    /\ results = <<>>
    /\ bpc = "idle"
    /\ output = <<>>
    /\ tty = FALSE
    /\ progress = <<>>
    /\ exit_code = -1

\* s.split(sep, 1) for a one-character sep
RECURSIVE IndexOf(_, _, _)
IndexOf(s, sep, i) ==
    IF i > Len(s) THEN 0
    ELSE IF CharAt(s, i) = sep THEN i ELSE IndexOf(s, sep, i + 1)

SplitOnce(s, sep) ==
    LET k == IndexOf(s, sep, 1)
    IN  IF k = 0 THEN <<s>>
        ELSE <<SubSeq(s, 1, k - 1), SubSeq(s, k + 1, Len(s))>>

Proc(code, out, err) == [exit |-> code, stdout |-> out, stderr |-> err]

\* the process has not ended
NoProc == Proc(-1, "", "")

Usage ==
    "Usage: ./get-repo-url.py groupId:artifactId [--verbose]\n"
    \o "Example: ./get-repo-url.py org.jolokia:jolokia-support-spring\n"
    \o "         ./get-repo-url.py net.javacrumbs.shedlock:shedlock-spring --verbose\n"
    \o "         ./get-repo-url.py org.apache.camel:camel-spring-main --verbose\n"

\* `len(sys.argv) < 2 or ':' not in sys.argv[1]`
BadArguments(args) == Len(args) < 1 \/ ~Contains(args[1], ":")

\* what the interpreter does with an exception nothing catches
Traceback(e) == Proc(1, "", "Traceback (most recent call last):\n" \o e \o "\n")

\* lines 218-223 for what get_repo_url(g, a) came to; the lines get_repo_url
\* itself wrote to standard error come before those counted here
ProcessEnd(g, a, o) ==
    IF o.kind = "raise" THEN Traceback(o.val[1])
    ELSE IF Truthy(o.val)
    THEN Proc(0, o.val[1] \o "\n", "")
    ELSE Proc(1, "", "Repository URL not found for " \o g \o ":" \o a \o "\n")

NoKey == Key("", "", None)

\* a package index that has nothing
EmptyWorld ==
    [meta |-> Index("notfound", <<>>, <<>>, <<>>),
     start |-> Resp("notfound"), par |-> Resp("notfound")]

GoodArgv == <<group_id \o ":" \o artifact_id>>

\* no argument, one without a colon, one naming an artifact the index lacks
OtherArgvs == {<<>>, <<"bad">>, <<":a">>}

Init ==
    /\ BulkIdle
    /\ NoCall
    /\ \/ /\ argv = GoodArgv
          /\ world \in [meta : MetaResponses, start : StartResponses,
                        par : ParResponses]
       \/ /\ argv \in OtherArgvs
          /\ world = EmptyWorld
    /\ proc = NoProc
    /\ pc = "main"
    /\ cur = NoKey
    /\ depth = InitDepth
    /\ content = Resp("empty")
    /\ fetched = <<>>
    /\ metaFetches = 0
    /\ outcome = Running

Finish(o) ==
    /\ pc' = "done"
    /\ outcome' = o

\* lines 208-216: the arguments are checked and split
Main ==
    /\ pc = "main"
    /\ IF BadArguments(argv)
       THEN /\ proc' = Proc(1, Usage, "")
            /\ pc' = "exited"
            /\ UNCHANGED cur
       ELSE /\ LET parts == SplitOnce(argv[1], ":")
               IN  cur' = Key(parts[1], parts[2], None)
            /\ pc' = "metadata"
            /\ UNCHANGED proc
    /\ UNCHANGED <<world, argv, depth, content, fetched, metaFetches, outcome>>
    /\ UNCHANGED <<bvars, fvars>>

\* lines 218-223, or the end of the process by an uncaught exception
Exit ==
    /\ pc = "done"
    /\ proc' = ProcessEnd(cur.g, cur.a, outcome)
    /\ pc' = "exited"
    /\ UNCHANGED <<world, argv, cur, depth, content, fetched, metaFetches, outcome>>
    /\ UNCHANGED <<bvars, fvars>>

\* lines 62-105: fetch the version index and choose the version
FetchMetadata ==
    /\ pc = "metadata"
    /\ metaFetches' = metaFetches + 1
    /\ LET r == fetch_url(ServeMeta(world, cur.g, cur.a))
       IN  IF r.exc # ""
           THEN Finish(Raise(r.exc)) /\ UNCHANGED <<cur, depth>>
           ELSE IF NoContent(r.body) \/ r.body[1].kind = "parseerror"
           THEN Finish(Return(None)) /\ UNCHANGED <<cur, depth>>
           ELSE LET sel == SelectVersion(r.body[1])
                IN  IF ~sel.found
                    THEN Finish(Return(None)) /\ UNCHANGED <<cur, depth>>
                    ELSE /\ cur' = Key(cur.g, cur.a, sel.version)
                         /\ depth' = InitDepth
                         /\ pc' = "loop"
                         /\ UNCHANGED outcome
    /\ UNCHANGED <<world, argv, proc, content, fetched>>
    /\ UNCHANGED <<bvars, fvars>>

\* line 107, and line 205 when the loop ends
LoopTest ==
    /\ pc = "loop"
    /\ IF depth < max_depth
       THEN pc' = "fetch" /\ UNCHANGED outcome
       ELSE Finish(Return(None))
    /\ UNCHANGED <<world, argv, proc, cur, depth, content, fetched, metaFetches>>
    /\ UNCHANGED <<bvars, fvars>>

\* lines 108-117: fetch the manifest of the current coordinate
FetchPom ==
    /\ pc = "fetch"
    /\ fetched' = Append(fetched, cur)
    /\ LET r == fetch_url(Serve(world, cur))
       IN  IF r.exc # ""
           THEN Finish(Raise(r.exc)) /\ UNCHANGED content
           ELSE IF NoContent(r.body)
           THEN /\ UNCHANGED content
                /\ IF AfterFetchFailure = "break"
                   THEN Finish(Return(None))
                   ELSE pc' = "loop" /\ UNCHANGED outcome
           ELSE /\ content' = r.body[1]
                /\ pc' = "parse"
                /\ UNCHANGED outcome
    /\ UNCHANGED <<world, argv, proc, cur, depth, metaFetches>>
    /\ UNCHANGED <<bvars, fvars>>

\* lines 119-203: parse the manifest and act on it
ProcessPom ==
    /\ pc = "parse"
    /\ LET step == ManifestStep(content)
       IN  CASE step.act = "return" ->
                  Finish(Return(step.val)) /\ UNCHANGED <<cur, depth>>
             [] step.act = "raise" ->
                  Finish(Raise(step.val[1])) /\ UNCHANGED <<cur, depth>>
             [] step.act = "break" ->
                  Finish(Return(None)) /\ UNCHANGED <<cur, depth>>
             [] step.act = "continue" ->
                  pc' = "loop" /\ UNCHANGED <<cur, depth, outcome>>
             [] step.act = "advance" ->
                  /\ cur' = step.to
                  /\ depth' = depth + 1
                  /\ pc' = "loop"
                  /\ UNCHANGED outcome
    /\ UNCHANGED <<world, argv, proc, content, fetched, metaFetches>>
    /\ UNCHANGED <<bvars, fvars>>

Next == Main \/ FetchMetadata \/ LoopTest \/ FetchPom \/ ProcessPom \/ Exit

Spec == Init /\ [][Next]_vars


----------------------------------------------------------------------------
(* Properties of get_repo_url                                               *)

\* the manifest the loop body last worked on, once the traversal has ended
Ended == pc = "done" /\ Len(fetched) > 0 /\ content.kind = "ok"

ReturnedUrl == outcome.kind = "return" /\ outcome.val # None

\* a manifest that gives no URL by its SCM block or its project URL
YieldsNoUrl(doc) ==
    /\ doc.scm = None \/ ScmProbe(doc.scm[1], 1) = None
    /\ ProjectUrlProbe(doc) = None

\* the URL a manifest gives by itself (None when YieldsNoUrl)
OwnUrl(doc) ==
    IF doc.scm # None /\ ScmProbe(doc.scm[1], 1) # None
    THEN ScmProbe(doc.scm[1], 1)
    ELSE ProjectUrlProbe(doc)

IsRef(p, k) ==
    p # None /\ p[1].groupId = Some(k.g) /\ p[1].artifactId = Some(k.a)
             /\ p[1].version = k.v

Incomplete(p) == p = None \/ ~AllPopulated(p[1])

\* C1: when the package's own manifest yields no URL and its parent is a
\* complete reference to a manifest that yields one, get_repo_url fetches
\* exactly that parent next and returns the parent's URL; when the parent is
\* missing or incomplete it ends unresolved (returns None) after the one fetch.
C1_NearestAncestorUrl ==
    (pc = "done" /\ Len(fetched) > 0 /\ world.start.kind = "ok"
        /\ fetched[1].v \in PublishedVersions /\ YieldsNoUrl(world.start.doc))
    => /\ (IsRef(world.start.doc.parent, ParKey) /\ world.par.kind = "ok"
              /\ ~YieldsNoUrl(world.par.doc))
          => (outcome = Return(OwnUrl(world.par.doc))
                 /\ fetched = <<fetched[1], ParKey>>)
       /\ Incomplete(world.start.doc.parent)
          => (outcome = Return(None) /\ Len(fetched) = 1)

\* C6: 0 <= depth <= max_depth at every step, and no traversal, whatever the
\* chain (a cyclic one included), requests more than max_depth manifests.
C6_DepthBounded ==
    /\ 0 <= depth
    /\ depth <= max_depth
    /\ Len(fetched) <= max_depth

\* a traversal of a chain whose parent link points back at the package itself
\* has ended
C6_Witness ==
    /\ pc = "done"
    /\ Len(fetched) > 0
    /\ world.start.kind = "ok"
    /\ YieldsNoUrl(world.start.doc)
    /\ IsRef(world.start.doc.parent, Key(group_id, artifact_id, Some("1")))

\* C7: when the manifest yields no URL and its parent is org.apache:apache,
\* get_repo_url returns https://github.com/apache/<the manifest's own
\* artifactId> and never requests the Apache root manifest.
C7_ApacheSynthesis ==
    (Ended /\ YieldsNoUrl(content.doc) /\ content.doc.parent # None
        /\ IsApacheRoot(content.doc.parent[1]) /\ Truthy(content.doc.artifactId))
    => /\ outcome = Return(Some("https://github.com/apache/"
                                  \o content.doc.artifactId[1]))
       /\ \A i \in 1..Len(fetched) :
             ~(fetched[i].g = "org.apache" /\ fetched[i].a = "apache")

\* C8: when the manifest yields no URL and its parent is
\* org.sonatype.oss:oss-parent, get_repo_url ends Unresolved (returns None)
\* and never requests the oss-parent manifest.
C8_OssParentStops ==
    (Ended /\ YieldsNoUrl(content.doc) /\ content.doc.parent # None
        /\ IsOssParent(content.doc.parent[1]))
    => /\ outcome = Return(None)
       /\ \A i \in 1..Len(fetched) :
             ~(fetched[i].g = "org.sonatype.oss" /\ fetched[i].a = "oss-parent")

\* the normalized value of the first of developerConnection, url, connection
\* whose normalized value is non-empty
FirstNonEmpty(scm) ==
    LET dc == clean_scm_url(scm.developerConnection)
        u  == clean_scm_url(scm.url)
        c  == clean_scm_url(scm.connection)
    IN  IF Truthy(dc) THEN dc
        ELSE IF Truthy(u) THEN u
        ELSE IF Truthy(c) THEN c
        ELSE None

\* C9: a manifest with an SCM block one of whose fields normalizes to a
\* non-empty value makes get_repo_url return the normalized value of the first
\* such field in the order developerConnection, url, connection, whatever the
\* other fields, the project URL and the parent reference hold.
C9_ScmFieldPriority ==
    (Ended /\ content.doc.scm # None /\ FirstNonEmpty(content.doc.scm[1]) # None)
    => outcome = Return(FirstNonEmpty(content.doc.scm[1]))

\* a developerConnection that normalizes to the empty text was passed over for
\* the url field, with a connection, a project URL and a parent also present
C9_Witness ==
    /\ Ended
    /\ content.doc.scm # None
    /\ content.doc.scm[1].developerConnection = Some("scm:git:")
    /\ content.doc.scm[1].connection # None
    /\ content.doc.url # None
    /\ content.doc.parent # None
    /\ outcome = Return(Some("https://github.com/o/url"))

RECURSIVE FindFrom(_, _, _)
FindFrom(s, p, i) ==
    IF i > Len(s) THEN 0
    ELSE IF StartsWithAt(s, i, p) THEN i
    ELSE FindFrom(s, p, i + 1)

\* the host of a URL: what stands between "://" and the next "/"
HostOf(url) ==
    LET a    == FindFrom(url, "://", 1)
        rest == IF a = 0 THEN url ELSE SubSeq(url, a + 3, Len(url))
        b    == FindFrom(rest, "/", 1)
    IN  IF b = 0 THEN rest ELSE SubSeq(rest, 1, b - 1)

\* C10: a manifest with no SCM block and a project URL makes get_repo_url
\* return a URL exactly when the URL's host is one of the code-hosting
\* domains, and the URL returned is clean_scm_url of the project URL.
C10_ProjectUrlNormalized ==
    (Ended /\ content.doc.scm = None /\ Truthy(content.doc.url))
    => /\ ReturnedUrl <=> HostOf(Strip(content.doc.url[1])) \in REPO_HOSTS
       /\ ReturnedUrl => outcome.val = clean_scm_url(content.doc.url)


\* the element e of the version index is there and has a text
Gives(e) == e # <<>> /\ Truthy(e[1])

\* the last entry of the versions list, as an element
LastOfVersions(m) ==
    IF m.versions # <<>> /\ Len(m.versions[1]) > 0
    THEN <<m.versions[1][Len(m.versions[1])]>>
    ELSE <<>>

\* the first of latest, release, last of versions that gives a version
FirstGiven(m) ==
    IF Gives(m.latest) THEN m.latest
    ELSE IF Gives(m.release) THEN m.release
    ELSE IF Gives(LastOfVersions(m)) THEN LastOfVersions(m)
    ELSE <<>>

\* the version index was fetched and parsed
IndexRead == metaFetches > 0 /\ world.meta.kind = "ok"

\* C13: the version traversed is the value of latest when the index gives
\* one, otherwise that of release, otherwise the last entry of versions;
\* when none of the three gives a version the call returns None and no
\* manifest is fetched.
C13_VersionSelection ==
    IndexRead =>
        IF FirstGiven(world.meta) = <<>>
        THEN fetched = <<>> /\ (pc = "done" => outcome = Return(None))
        ELSE Len(fetched) > 0 => fetched[1].v = FirstGiven(world.meta)[1]

\* the kinds of response that are a failure of the fetch itself
FetchFailures == {"notfound", "httperror", "neterror"}

\* the response to the last request get_repo_url made
LastResponse ==
    IF Len(fetched) = 0
    THEN ServeMeta(world, cur.g, cur.a)
    ELSE Serve(world, fetched[Len(fetched)])

\* C14: every fetch failure (404, another HTTP error status, a timeout, a
\* connection error) is soft: fetch_url gives back no document, and the
\* traversal ends unresolved, never by an exception.
C14_FetchFailureSoft ==
    (pc = "done" /\ LastResponse.kind \in FetchFailures) =>
        /\ fetch_url(LastResponse) = [exc |-> "", body |-> None]
        /\ outcome = Return(None)

\* get_repo_url came back with a URL
Succeeded == outcome.kind = "return" /\ Truthy(outcome.val)

\* C15: a run of the resolver ends in one of two ways: on success the URL is
\* printed to standard output and the exit code is 0; on any failure (bad
\* argument, no version index, unresolved chain) a diagnostic is printed to
\* standard error, nothing to standard output, and the exit code is not 0.
C15_TwoEndings ==
    pc = "exited" =>
        IF Succeeded
        THEN proc.exit = 0 /\ proc.stdout = outcome.val[1] \o "\n"
        ELSE proc.exit # 0 /\ proc.stdout = "" /\ proc.stderr # ""

----------------------------------------------------------------------------
(* resolve_artifact                                                         *)

\* s.split(sep) for a one-character sep
RECURSIVE SplitFrom(_, _, _, _)
SplitFrom(s, sep, i, acc) ==
    IF i > Len(s) THEN <<acc>>
    ELSE IF CharAt(s, i) = sep
         THEN <<acc>> \o SplitFrom(s, sep, i + 1, "")
         ELSE SplitFrom(s, sep, i + 1, acc \o CharAt(s, i))

Split(s, sep) == SplitFrom(s, sep, 1, "")

\* the test of line 22 passed
FormatOk(artifact) == Len(Split(artifact, ":")) = 2

Record(artifact, g, a, resolved, url, error, ms) ==
    [artifact |-> artifact, group_id |-> g, artifact_id |-> a,
     resolved |-> resolved, repository_url |-> url, error |-> error,
     response_time_ms |-> ms]

NoRecord == Record("", "", "", FALSE, "", None, 0)

\* what subprocess.run did: it returned a CompletedProcess ("completed"),
\* raised TimeoutExpired ("timeout") or raised something else ("exception")
\* ms is the time the call took, spawned whether a resolver process ran
EnvRun(kind, rc, out, err, msg, ms, spawned) ==
    [kind |-> kind, rc |-> rc, stdout |-> out, stderr |-> err, msg |-> msg,
     ms |-> ms, spawned |-> spawned]

NoRun == EnvRun("none", 0, "", "", "", 0, FALSE)

Completed(rc, out, err, ms) == EnvRun("completed", rc, out, err, "", ms, TRUE)

Raised(msg, ms) == EnvRun("exception", 0, "", "", msg, ms, FALSE)

TimeoutMs == 30000

\* the handler of `except Exception` at lines 76-85
PropagateException(artifact, parts, run) == [exc |-> TRUE, rec |-> NoRecord]

HandleException(artifact, parts, run) ==
    [exc |-> FALSE,
     rec |-> Record(artifact, parts[1], parts[2], FALSE, "", Some(run.msg), 0)]

\* [exc, rec]: the record returned, or exc when an exception leaves the call;
\* run is what subprocess.run did
resolve_artifact(artifact, run) ==
    LET parts == Split(artifact, ":")
        elapsed_ms == run.ms
    IN  IF Len(parts) # 2
        THEN [exc |-> FALSE,
              rec |-> Record(artifact, "", "", FALSE, "",
                             Some("Invalid artifact format"), 0)]
        ELSE CASE run.kind = "completed" ->
                    IF run.rc = 0
                    THEN [exc |-> FALSE,
                          rec |-> Record(artifact, parts[1], parts[2], TRUE,
                                         Strip(run.stdout), None, elapsed_ms)]
                    ELSE [exc |-> FALSE,
                          rec |-> Record(artifact, parts[1], parts[2], FALSE, "",
                                         Some(IF run.stderr # ""
                                              THEN Strip(run.stderr)
                                              ELSE "Repository URL not found"),
                                         elapsed_ms)]
               [] run.kind = "timeout" ->
                    [exc |-> FALSE,
                     rec |-> Record(artifact, parts[1], parts[2], FALSE, "",
                                    Some("Resolution timeout (30s)"), TimeoutMs)]
               [] OTHER -> HandleException(artifact, parts, run)

----------------------------------------------------------------------------
(* resolve_parallel                                                         *)

MaxUnits == 3

MaxWorkers == 2

InputStrings == {"g:a", "bad", ":a"}

InputLists(n) == UNION { [1..k -> InputStrings] : k \in 1..n }

\* the ways a call of subprocess.run that ends within the timeout can end
EnvRuns ==
    {Completed(0, "https://github.com/o/r\n", "", 1500),
     Completed(1, "", "Repository URL not found for g:a\n", 200),
     Raised("[Errno 12] Cannot allocate memory", 700)}

\* a resolver that does not end within the 30 s, killed by subprocess.run
TimeoutExpired == EnvRun("timeout", 0, "", "", "", TimeoutMs, TRUE)

\* subprocess.run is called with timeout=30
NoTimeout == FALSE

HasTimeout == TRUE

Units == 1..Len(artifacts)

Queued(i) == unit[i].st = "queued"

NumRunning == Cardinality({i \in Units : unit[i].st \in {"running", "hung"}})

\* artifact_order: a dict comprehension keeps the last index of a string
artifact_order(a) ==
    CHOOSE i \in 1..Len(artifacts) :
        artifacts[i] = a /\ \A j \in (i + 1)..Len(artifacts) : artifacts[j] # a

InOrder(a) == \E i \in 1..Len(artifacts) : artifacts[i] = a

\* the sort key of a record: float('inf') is one past every index
SortKey(r) ==
    IF InOrder(r.artifact) THEN artifact_order(r.artifact) ELSE Len(artifacts) + 1

\* list.sort is stable: r goes behind every record whose key is not larger
RECURSIVE InsertByKey(_, _)
InsertByKey(sorted, r) ==
    IF sorted = <<>> THEN <<r>>
    ELSE IF SortKey(sorted[Len(sorted)]) <= SortKey(r)
         THEN Append(sorted, r)
         ELSE Append(InsertByKey(SubSeq(sorted, 1, Len(sorted) - 1), r),
                     sorted[Len(sorted)])

RECURSIVE SortFrom(_, _, _)
SortFrom(rs, k, acc) ==
    IF k > Len(rs) THEN acc ELSE SortFrom(rs, k + 1, InsertByKey(acc, rs[k]))

SortResults(rs) == SortFrom(rs, 1, <<>>)

\* st: "queued", "running" (the resolver will end in time), "hung" (it will
\* not), "done"; ran: a resolver process was started; exc: the future holds an
\* exception; rec: the record it holds; taken: as_completed has yielded it
\* nothing is on the progress line
NoProgress == <<>>

\* lines 112-114: len(results) and the number of resolved records in it
Progress(rs) ==
    <<Len(rs), Cardinality({k \in 1..Len(rs) : rs[k].resolved})>>

\* line 111: `if sys.stderr.isatty()`
ShowsProgressAlways == TRUE

ShowsProgress == tty

QueuedUnit == [st |-> "queued", ran |-> FALSE, exc |-> FALSE,
               rec |-> NoRecord, taken |-> FALSE]

\* no traversal is in progress
TraversalIdle ==
    /\ world = EmptyWorld
    /\ argv = <<>>
    /\ proc = NoProc
    /\ pc = "idle"
    /\ cur = NoKey
    /\ depth = InitDepth
    /\ content = Resp("empty")
    /\ fetched = <<>>
    /\ metaFetches = 0
    /\ outcome = Running

\* lines 99-104: every artifact is submitted to the pool
BulkInitOver(lists, ttys) ==
    /\ TraversalIdle
    /\ NoCall
    /\ artifacts \in lists
    /\ max_workers \in 1..MaxWorkers
    /\ unit = [i \in 1..Len(artifacts) |-> QueuedUnit]
    /\ results = <<>>
    /\ bpc = "collect"
    /\ output = <<>>
    /\ tty \in ttys
    /\ progress = NoProgress
    /\ exit_code = -1

\* standard error is not a terminal: the run of a pipeline
BulkInit == BulkInitOver(InputLists(MaxUnits), {FALSE})

Done(i, r, ran) ==
    unit' = [unit EXCEPT ![i] = [@ EXCEPT !.st = "done", !.exc = r.exc,
                                           !.rec = r.rec, !.ran = ran]]

\* a free worker thread takes the oldest queued call and runs it up to
\* subprocess.run (lines 21-37)
StartUnit(i) ==
    /\ bpc \in {"collect", "aborted"}
    /\ Queued(i)
    /\ \A j \in 1..(i - 1) : ~Queued(j)
    /\ NumRunning < max_workers
    /\ IF FormatOk(artifacts[i])
       THEN \E st \in {"running", "hung"} : unit' = [unit EXCEPT ![i].st = st]
       ELSE Done(i, resolve_artifact(artifacts[i], NoRun), FALSE)
    /\ UNCHANGED <<artifacts, max_workers, results, bpc, output, tty, progress,
                   exit_code>>
    /\ UNCHANGED <<tvars, fvars>>

\* subprocess.run returns or raises before the timeout (lines 43-65, 76-85)
Complete(i) ==
    /\ bpc \in {"collect", "aborted"}
    /\ unit[i].st = "running"
    /\ \E run \in EnvRuns :
          Done(i, resolve_artifact(artifacts[i], run), run.spawned)
    /\ UNCHANGED <<artifacts, max_workers, results, bpc, output, tty, progress,
                   exit_code>>
    /\ UNCHANGED <<tvars, fvars>>

\* subprocess.run kills the resolver and raises TimeoutExpired (lines 66-75)
Timeout(i) ==
    /\ bpc \in {"collect", "aborted"}
    /\ unit[i].st = "hung"
    /\ HasTimeout
    /\ Done(i, resolve_artifact(artifacts[i], TimeoutExpired), TRUE)
    /\ UNCHANGED <<artifacts, max_workers, results, bpc, output, tty, progress,
                   exit_code>>
    /\ UNCHANGED <<tvars, fvars>>

\* lines 106-115: as_completed yields a finished future; its result is
\* appended and the progress line rewritten
Collect(i) ==
    /\ bpc = "collect"
    /\ unit[i].st = "done"
    /\ ~unit[i].taken
    /\ unit' = [unit EXCEPT ![i].taken = TRUE]
    /\ IF unit[i].exc
       THEN bpc' = "aborted" /\ UNCHANGED <<results, progress>>
       ELSE /\ results' = Append(results, unit[i].rec)
            /\ progress' = IF ShowsProgress THEN Progress(results') ELSE progress
            /\ UNCHANGED bpc
    /\ UNCHANGED <<artifacts, max_workers, output, tty, exit_code>>
    /\ UNCHANGED <<tvars, fvars>>

\* lines 117-125: every future was yielded; clear the progress line, sort
\* and return
ReturnSorted ==
    /\ bpc = "collect"
    /\ \A i \in Units : unit[i].taken
    /\ progress' = NoProgress
    /\ output' = SortResults(results)
    /\ bpc' = "returned"
    /\ UNCHANGED <<artifacts, max_workers, unit, results, tty, exit_code>>
    /\ UNCHANGED <<tvars, fvars>>

\* main, lines 268-281: the results are written out and main returns; an
\* exception out of resolve_parallel ends the process once the pool has shut
\* down
BulkExit ==
    /\ bpc \in {"returned", "aborted"}
    /\ \A i \in Units : unit[i].st = "done"
    /\ exit_code' = IF bpc = "returned" THEN 0 ELSE 1
    /\ bpc' = "exited"
    /\ UNCHANGED <<artifacts, max_workers, unit, results, output, tty, progress>>
    /\ UNCHANGED <<tvars, fvars>>

BulkNext ==
    \/ \E i \in Units : StartUnit(i)
    \/ \E i \in Units : Complete(i)
    \/ \E i \in Units : Timeout(i)
    \/ \E i \in Units : Collect(i)
    \/ ReturnSorted
    \/ BulkExit

BulkSpec == BulkInit /\ [][BulkNext]_vars

MaxTtyUnits == 2

\* standard error is a terminal or not
BulkTtyInit == BulkInitOver(InputLists(MaxTtyUnits), BOOLEAN)

BulkTtySpec == BulkTtyInit /\ [][BulkNext]_vars

MaxFairUnits == 2

BulkFairInit == BulkInitOver(InputLists(MaxFairUnits), {FALSE})

\* every thread that can take a step does take one
BulkFairSpec == BulkFairInit /\ [][BulkNext]_vars /\ WF_vars(BulkNext)


----------------------------------------------------------------------------
(* Properties of resolve_artifact and resolve_parallel                      *)

Returned == bpc = "returned"

\* C2: the list resolve_parallel returns has the length of the input and its
\* i-th record is the record produced for the i-th input string, whatever the
\* input (repeated strings included) and whatever the completion order.
C2_IndexAligned ==
    Returned =>
        /\ Len(output) = Len(artifacts)
        /\ \A i \in 1..Len(artifacts) : output[i] = unit[i].rec

Occurrences(seq, r) == Cardinality({k \in 1..Len(seq) : seq[k] = r})

\* C3: no unit's outcome aborts the run or leaves an exception in its future,
\* and the returned list holds exactly one record per input entry: as many
\* records as entries, each unit's record as often as units produced it.
C3_OneRecordPerEntry ==
    /\ bpc # "aborted"
    /\ \A i \in Units : ~unit[i].exc
    /\ Returned =>
          /\ Len(output) = Len(artifacts)
          /\ \A i \in Units :
                Occurrences(output, unit[i].rec)
                    = Cardinality({j \in Units : unit[j].rec = unit[i].rec})

\* a run of three units that ended with a timeout, with an exception raised by
\* subprocess.run and with a non-zero exit has returned
C3_Witness ==
    /\ Returned
    /\ Len(artifacts) = 3
    /\ \E i, j, k \in Units :
          /\ unit[i].rec.error = Some("Resolution timeout (30s)")
          /\ unit[j].rec.error = Some("[Errno 12] Cannot allocate memory")
          /\ unit[k].rec.error = Some("Repository URL not found for g:a")

\* exactly two non-empty parts around one ':'
WellFormed(artifact) ==
    LET parts == Split(artifact, ":")
    IN  Len(parts) = 2 /\ parts[1] # "" /\ parts[2] # ""

\* C4: an input string that does not split on ':' into exactly two non-empty
\* parts is never handed to subprocess.run, no resolver process is started
\* for it, and its record is the format error.
C4_MalformedNotDispatched ==
    \A i \in Units :
        ~WellFormed(artifacts[i]) =>
            /\ unit[i].st \in {"queued", "done"}
            /\ ~unit[i].ran
            /\ unit[i].st = "done" =>
                  /\ ~unit[i].rec.resolved
                  /\ unit[i].rec.error = Some("Invalid artifact format")

IsTimeoutRecord(r) ==
    /\ ~r.resolved
    /\ r.error = Some("Resolution timeout (30s)")
    /\ r.response_time_ms = 30000

HungEndsAsTimeout ==
    \A i \in Units :
        unit[i].st = "hung" =>
            \/ unit'[i].st = "hung"
            \/ unit'[i].st = "done" /\ ~unit'[i].exc /\ IsTimeoutRecord(unit'[i].rec)

IsHung(i) == IF i \in Units THEN unit[i].st = "hung" ELSE FALSE

TimedOut(i) ==
    IF i \in Units
    THEN unit[i].st = "done" /\ IsTimeoutRecord(unit[i].rec)
    ELSE FALSE

\* C5: a unit whose resolver does not return leaves that state only with the
\* timeout record (resolved false, the timeout error, 30000 ms), it does leave
\* it, and the run returns one record per input, for every pool width from 1.
C5_TimeoutNeverPending ==
    /\ [][HungEndsAsTimeout]_vars
    /\ \A i \in 1..MaxFairUnits : IsHung(i) ~> TimedOut(i)
    /\ <>(Returned /\ Len(output) = Len(artifacts))

\* with one worker, the first unit timed out and the second still ended with
\* a record of its own
C5_Witness ==
    /\ Returned
    /\ max_workers = 1
    /\ Len(artifacts) = 2
    /\ IsTimeoutRecord(unit[1].rec)
    /\ unit[2].rec.resolved
    /\ output = <<unit[1].rec, unit[2].rec>>

\* C17: the exit code of a bulk run tells whether any item failed: it is
\* not 0 if and only if some input item ended with resolved false.
C17_ExitCodeReflectsFailure ==
    (bpc = "exited" /\ Len(output) = Len(artifacts)) =>
        (exit_code # 0 <=> \E k \in 1..Len(output) : ~output[k].resolved)

\* the records in results are those of the futures the main thread was
\* handed by as_completed, one for each
AppendedByCollector ==
    /\ Len(results) = Cardinality({i \in Units : unit[i].taken /\ ~unit[i].exc})
    /\ \A i \in Units : unit[i].taken => unit[i].st = "done"

AllUnitsDone == \A i \in Units : unit[i].st = "done"

\* the list was read for the progress line
ProgressRead == progress # NoProgress

\* C20 as stated: the results list is appended to by one thread at a time and
\* is read only after every unit has completed or timed out, never while a
\* unit is still running or queued.
C20_ReadOnlyAfterAllDone ==
    /\ AppendedByCollector
    /\ ProgressRead => AllUnitsDone

\* C20 amended: only the main thread appends to results, one record per
\* finished unit; while units are still running or queued the list is read
\* only by that same thread for the progress line, only when standard error
\* is a terminal, and what it shows is the list as appended so far; the list
\* is sorted and returned only after every unit has completed or timed out.
C20_ReadByCollectorOnly ==
    /\ AppendedByCollector
    /\ ProgressRead => (tty /\ progress = Progress(results))
    /\ bpc = "returned" => (AllUnitsDone /\ ~ProgressRead)

\* on a terminal the progress line was written from the list while another
\* unit was still running
C20_Witness ==
    /\ tty
    /\ ProgressRead
    /\ Len(results) = 1
    /\ \E i \in Units : unit[i].st \in {"running", "hung"}

----------------------------------------------------------------------------
(* Functions called on their own, on arguments chosen in Init               *)

MaxFrags == 2

\* pieces the rewrites of clean_scm_url act on, and pieces of such pieces
Fragments == {"scm:", "sc", "m:", "git:", "git@github.com:", "git://", ".git", "/", "x"}

\* the texts made of at most n fragments
RECURSIVE FragStrings(_)
FragStrings(n) ==
    IF n = 0 THEN {""}
    ELSE FragStrings(n - 1) \cup
         {s \o f : s \in FragStrings(n - 1), f \in Fragments}

Hosts == {"github.com", "gitlab.com", "bitbucket.org"}

Orgs == {"org", "my.gitops"}

Repos == {"repo", "foo.github.io"}

\* the developer connection of a repository reached over SSH
ScmSsh(h, o, r) == "scm:git:git@" \o h \o ":" \o o \o "/" \o r \o ".git"

CleanInputs ==
    {None} \cup {Some(s) : s \in FragStrings(MaxFrags)}
           \cup {Some(ScmSsh(h, o, r)) : h \in Hosts, o \in Orgs, r \in Repos}

\* the ways get_repo_url ends inside the resolver process
ResolverOutcomes ==
    {Return(Some("https://github.com/o/r")), Return(Some(" ")), Return(None),
     Raise("NameError"), Raise("HTTPError")}

\* how long subprocess.run took, in ms
RunTimes == {200, 1500}

ArtifactStrings == InputStrings \cup {"a:b:c", "org.x:foo"}

\* what subprocess.run can do for artifact x: the resolver process ends as
\* main of get-repo-url.py ends it, or runs past the 30 s, or cannot be started
RunsFor(x) ==
    LET parts == Split(x, ":")
    IN  { Completed(e.exit, e.stdout, e.stderr, ms) :
            e \in {ProcessEnd(parts[1], parts[2], o) : o \in ResolverOutcomes},
            ms \in RunTimes }
        \cup {TimeoutExpired, Raised("[Errno 12] Cannot allocate memory", 700)}

ResolveInputs ==
    { [artifact |-> x, run |-> NoRun] : x \in {y \in ArtifactStrings : ~FormatOk(y)} }
    \cup UNION { { [artifact |-> x, run |-> r] : r \in RunsFor(x) } :
                 x \in {y \in ArtifactStrings : FormatOk(y)} }

MaxArtifacts == 3

\* resolved records as generate-mapping-workflow.py reads them: the fields
\* get_unique_repositories looks at, and the name that tells them apart
ArtifactRecords ==
    [artifact : {"g:a", "g:b"},
     repository_url : {"", "https://github.com/o/r", "https://github.com/o/s"}]

RECURSIVE ListsOver(_, _)
ListsOver(S, n) ==
    IF n = 0 THEN {<<>>}
    ELSE ListsOver(S, n - 1) \cup
         {Append(l, x) : l \in {m \in ListsOver(S, n - 1) : Len(m) = n - 1}, x \in S}

UniqueInputs == ListsOver(ArtifactRecords, MaxArtifacts)

\* `repo_url not in seen_urls`
NotSeenNever(repo_url, seen_urls) == TRUE

NotSeen(repo_url, seen_urls) == repo_url \notin seen_urls

\* the loop of lines 57-63 from the k-th artifact on
RECURSIVE UniqueFrom(_, _, _, _, _)
UniqueFrom(arts, k, seen_urls, unique_artifacts, duplicate_artifacts) ==
    IF k > Len(arts)
    THEN [unique |-> unique_artifacts, duplicate |-> duplicate_artifacts]
    ELSE LET artifact == arts[k]
             repo_url == artifact.repository_url
         IN  IF repo_url # ""
             THEN IF NotSeen(repo_url, seen_urls)
                  THEN UniqueFrom(arts, k + 1, seen_urls \cup {repo_url},
                                  Append(unique_artifacts, artifact),
                                  duplicate_artifacts)
                  ELSE UniqueFrom(arts, k + 1, seen_urls, unique_artifacts,
                                  Append(duplicate_artifacts, artifact))
             ELSE UniqueFrom(arts, k + 1, seen_urls, unique_artifacts,
                             duplicate_artifacts)

get_unique_repositories(arts) == UniqueFrom(arts, 1, {}, <<>>, <<>>)

Calling(fn, args) ==
    /\ call \in [fn : {fn}, arg : args]
    /\ ret = <<>>

FunInit ==
    /\ TraversalIdle
    /\ BulkIdle
    /\ \/ Calling("clean_scm_url", CleanInputs)
       \/ Calling("resolve_artifact", ResolveInputs)
       \/ Calling("get_unique_repositories", UniqueInputs)

\* resolve_artifact(artifact, resolver_script), subprocess.run doing call.arg.run
CallResolve ==
    /\ call.fn = "resolve_artifact"
    /\ ret = <<>>
    /\ ret' = <<resolve_artifact(call.arg.artifact, call.arg.run)>>
    /\ UNCHANGED <<tvars, bvars, call>>

\* clean_scm_url(x), then clean_scm_url of what that returned
CallClean ==
    /\ call.fn = "clean_scm_url"
    /\ Len(ret) < 2
    /\ ret' = Append(ret, clean_scm_url(IF ret = <<>> THEN call.arg ELSE ret[Len(ret)]))
    /\ UNCHANGED <<tvars, bvars, call>>

\* get_unique_repositories(artifacts)
CallUnique ==
    /\ call.fn = "get_unique_repositories"
    /\ ret = <<>>
    /\ ret' = <<get_unique_repositories(call.arg)>>
    /\ UNCHANGED <<tvars, bvars, call>>

FunNext == CallClean \/ CallResolve \/ CallUnique

FunSpec == FunInit /\ [][FunNext]_vars

\* C11: clean_scm_url(clean_scm_url(x)) = clean_scm_url(x) for every text x
\* and for None, and an empty or absent x gives None.
C11_CleanIdempotent ==
    call.fn = "clean_scm_url" =>
        /\ (Len(ret) >= 1 /\ ~Truthy(call.arg)) => ret[1] = None
        /\ Len(ret) = 2 => ret[2] = ret[1]

\* C12: for each of the three hosts and every organisation and repository
\* name, also names holding ".git" before the final suffix,
\* scm:git:git@<host>:<org>/<repo>.git is cleaned to https://<host>/<org>/<repo>.
C12_SshShorthandToHttps ==
    call.fn = "clean_scm_url" =>
        \A h \in Hosts, o \in Orgs, r \in Repos :
            (call.arg = Some(ScmSsh(h, o, r)) /\ Len(ret) >= 1) =>
                ret[1] = Some("https://" \o h \o "/" \o o \o "/" \o r)

\* the record resolve_artifact returned
Resolved == call.fn = "resolve_artifact" /\ Len(ret) = 1 /\ ~ret[1].exc

\* C16: a record of resolve_artifact has exactly one of repository_url and
\* error: with resolved true a non-empty repository_url and no error, with
\* resolved false an empty repository_url and a non-empty error.
C16_UrlXorError ==
    Resolved =>
        LET rec == ret[1].rec
        IN  IF rec.resolved
            THEN rec.repository_url # "" /\ rec.error = None
            ELSE rec.repository_url = "" /\ Truthy(rec.error)

\* subprocess.run was called for the artifact
Dispatched == call.fn = "resolve_artifact" /\ call.arg.run # NoRun

\* C18: whatever the outcome of a dispatched unit (success, non-zero exit,
\* timeout, exception), response_time_ms is the time from its dispatch to its
\* completion.
C18_ElapsedRecorded ==
    (Resolved /\ Dispatched) => ret[1].rec.response_time_ms = call.arg.run.ms

\* the elements of list l at the indices in S, in the order of l
RECURSIVE PickFrom(_, _, _)
PickFrom(l, S, k) ==
    IF k > Len(l) THEN <<>>
    ELSE (IF k \in S THEN <<l[k]>> ELSE <<>>) \o PickFrom(l, S, k + 1)

\* the indices of the artifacts that are the first with their URL
FirstWithUrl(l) ==
    {k \in 1..Len(l) :
        /\ l[k].repository_url # ""
        /\ \A j \in 1..(k - 1) : l[j].repository_url # l[k].repository_url}

\* the indices of the artifacts whose URL an earlier artifact has
LaterWithUrl(l) ==
    {k \in 1..Len(l) :
        /\ l[k].repository_url # ""
        /\ \E j \in 1..(k - 1) : l[j].repository_url = l[k].repository_url}

Deduplicated == call.fn = "get_unique_repositories" /\ Len(ret) = 1

\* C19: the unique list of get_unique_repositories has pairwise distinct
\* URLs, holds for each URL the first artifact of the input that has it, in
\* input order, and every later artifact with a URL already seen is in the
\* duplicate list.
C19_FirstSeenKept ==
    Deduplicated =>
        LET u == ret[1].unique
            d == ret[1].duplicate
        IN  /\ \A i, j \in 1..Len(u) :
                  i # j => u[i].repository_url # u[j].repository_url
            /\ u = PickFrom(call.arg, FirstWithUrl(call.arg), 1)
            /\ d = PickFrom(call.arg, LaterWithUrl(call.arg), 1)

\* two artifacts share a URL, a third has another: the first of the two and
\* the third are kept, the second of the two is the duplicate
C19_Witness ==
    /\ Deduplicated
    /\ Len(call.arg) = 3
    /\ call.arg[1].repository_url = call.arg[3].repository_url
    /\ call.arg[1].artifact # call.arg[3].artifact
    /\ ret[1].unique = <<call.arg[1], call.arg[2]>>
    /\ ret[1].duplicate = <<call.arg[3]>>

=============================================================================
